---- MODULE Spec2Model ----
(***************************************************************************)
(* Model of the patent query optimizer: PatentCache and                    *)
(* SimplifiedPatentSearch (simplified_patent_search.py) and the search     *)
(* loop of main (run_patent_search.py).                                    *)
(*                                                                         *)
(* Strings are sequences of characters; a character is a one-element       *)
(* string, and a CJK character of the source is written by its code point  *)
(* ("u63D0").  The two collaborators (search provider, language model) are *)
(* black boxes: every call draws its outcome from a small set.             *)
(***************************************************************************)
EXTENDS Integers, Sequences, FiniteSets, TLC

\* ------------------------------------------------------------------------
\* Characters and the string functions of Python the code uses
\* ------------------------------------------------------------------------
Whitespace == {" ", "\n"}
DigitChars == <<"0", "1", "2", "3", "4", "5", "6", "7", "8", "9">>
LowerChars == {"a", "b", "j", "p", "x"}
UpperChars == {"A", "B", "J", "P", "X"}
CJKChars == {"u63D0", "u6848", "u30AF", "u30A8", "u30EA", "u6539", "u5584",
             "u6700", "u9069", "u5316"}
\* U+01F0, LATIN SMALL LETTER J WITH CARON: a letter with no upper-case
\* code point of its own; str.upper() gives "J" and U+030C, COMBINING
\* CARON, which is a mark and no letter.
ExpandingChars == {"u01F0"}

\* str.isalnum for one character: letters (CJK included) and digits.
IsAlnum(c) ==
    \/ \E i \in 1..Len(DigitChars) : DigitChars[i] = c
    \/ c \in LowerChars \cup UpperChars \cup CJKChars \cup ExpandingChars

\* str.upper for one character.
ToUpper(c) ==
    CASE c = "a" -> "A"
      [] c = "b" -> "B"
      [] c = "j" -> "J"
      [] c = "p" -> "P"
      [] c = "x" -> "X"
      [] OTHER -> c

\* str.lower for one character.
ToLower(c) ==
    CASE c = "A" -> "a"
      [] c = "B" -> "b"
      [] c = "J" -> "j"
      [] c = "P" -> "p"
      [] c = "X" -> "x"
      [] OTHER -> c

\* str.strip(): leading and trailing whitespace removed.
RECURSIVE LStrip(_)
LStrip(s) ==
    IF s # <<>> /\ Head(s) \in Whitespace THEN LStrip(Tail(s)) ELSE s

RECURSIVE RStrip(_)
RStrip(s) ==
    IF s # <<>> /\ s[Len(s)] \in Whitespace
    THEN RStrip(SubSeq(s, 1, Len(s) - 1))
    ELSE s

Strip(s) == RStrip(LStrip(s))

\* str.startswith(prefix)
StartsWith(s, prefix) ==
    /\ Len(s) >= Len(prefix)
    /\ SubSeq(s, 1, Len(prefix)) = prefix

\* s[len(prefix):]
DropPrefix(s, prefix) == SubSeq(s, Len(prefix) + 1, Len(s))

\* str(i) for a natural number, as a sequence of digit characters.
RECURSIVE DigitsOf(_)
DigitsOf(i) ==
    IF i < 10 THEN <<DigitChars[i + 1]>>
    ELSE Append(DigitsOf(i \div 10), DigitChars[(i % 10) + 1])

Min(a, b) == IF a <= b THEN a ELSE b

\* ------------------------------------------------------------------------
\* SimplifiedPatentSearch._normalize_patent_number
\* ------------------------------------------------------------------------
KeepAlnum(s) == SelectSeq(s, IsAlnum)

\* str.upper of one character: one character, or several.
UpperOf(c) == IF c = "u01F0" THEN <<"J", "u030C">> ELSE <<ToUpper(c)>>

\* str.upper
RECURSIVE StrUpper(_)
StrUpper(s) ==
    IF s = <<>> THEN <<>> ELSE UpperOf(Head(s)) \o StrUpper(Tail(s))

_normalize_patent_number(patent_number) ==
    StrUpper(KeepAlnum(patent_number))

\* ------------------------------------------------------------------------
\* Data model
\* ------------------------------------------------------------------------
\* A Python dict with string keys is a function on its key set.
EmptyMap == [k \in {} |-> 0]

\* {} as a patent record.
EmptyRecord == [empty |-> TRUE]

\* A DataFrame of search results is given by its length n and the pattern
\* pat of its patent_number column; row i is computed on demand.  rank
\* stands for the row's other columns (title, abstract, ...), which tell
\* the rows of one result set apart.
EmptyDF == [n |-> 0, pat |-> "none"]

PatentNumberOf(pat, i) ==
    CASE pat = "dash"  -> <<"J", "P", "-">> \o DigitsOf(i) \o <<" ", "A">>
      [] pat = "lower" -> <<"j", "p">> \o DigitsOf(i) \o <<"a">>
      [] pat = "cycle" -> <<"J", "P", "-">> \o DigitsOf(((i - 1) % 3) + 1)
      [] OTHER -> <<>>

\* df.iloc[i - 1].to_dict()
Row(df, i) ==
    [empty |-> FALSE, rank |-> i, patent_number |-> PatentNumberOf(df.pat, i)]

\* The value None, and a str value.
NoneValue == [kind |-> "None"]
Str(s) == [kind |-> "str", s |-> s]

\* Outcomes of one call of a collaborator.
LlmRaise(err) == [kind |-> "raise", err |-> err]
LlmContent(c) == [kind |-> "content", content |-> c]
ProviderRaise == [kind |-> "raise"]
ProviderNoOrganic == [kind |-> "no_organic_results"]
ProviderResults(df) == [kind |-> "results", df |-> df]

\* ------------------------------------------------------------------------
\* PatentCache
\* ------------------------------------------------------------------------
\* Content of patent_cache.json: no file, bytes that are not UTF-8, text
\* that is not JSON, or a JSON value.  A JSON value is a mapping
\* ([kind |-> "dict", map |-> f]) or some other value (kind "list", for
\* [] and for every scalar).  A value of a mapping is a cache entry or a
\* scalar written by hand.
FileAbsent == [kind |-> "absent"]
FileNotUtf8 == [kind |-> "not_utf8"]
FileNotJson == [kind |-> "not_json"]
FileJson(v) == [kind |-> "json", value |-> v]

JsonDict(m) == [kind |-> "dict", map |-> m]
JsonList == [kind |-> "list"]
ScalarEntry == [kind |-> "scalar"]

\* datetime.now().isoformat(): the model keeps no clock.
Now == "now"

CacheEntryOf(patent_data) ==
    [kind |-> "entry", patent_data |-> patent_data, last_updated |-> Now]

Ok(v) == [kind |-> "ok", value |-> v]
Raise(e) == [kind |-> "raise", err |-> e]

\* PatentCache._load_cache: only json.JSONDecodeError is caught.
_load_cache(f) ==
    CASE f.kind = "absent"   -> Ok(JsonDict(EmptyMap))
      [] f.kind = "not_json" -> Ok(JsonDict(EmptyMap))
      [] f.kind = "not_utf8" -> Raise(<<"UnicodeDecodeError">>)
      [] OTHER               -> Ok(f.value)

\* A faulty save: an empty mapping is written, whatever the cache holds.
SaveNothing(c) == FileJson(JsonDict(EmptyMap))

\* PatentCache._save_cache: the whole mapping is rewritten.
_save_cache(c) == FileJson(c)

\* A faulty item assignment: the key is folded to lower case.
SetItemLowerKey(m, query, entry) ==
    LET k == [i \in 1..Len(query) |-> ToLower(query[i])]
    IN  [q \in (DOMAIN m) \cup {k} |-> IF q = k THEN entry ELSE m[q]]

\* self.cache[query] = entry: the key is the query string as given.
SetItem(m, query, entry) ==
    [q \in (DOMAIN m) \cup {query} |-> IF q = query THEN entry ELSE m[q]]

\* PatentCache.update_cache: [cache, file] after the call, or the error
\* raised by the item assignment on a value that is no mapping.
update_cache(c, f, query, patent_data) ==
    IF c.kind = "dict"
    THEN LET c2 == JsonDict(SetItem(c.map, query, CacheEntryOf(patent_data)))
         IN  Ok([cache |-> c2, file |-> _save_cache(c2)])
    ELSE Raise(<<"TypeError">>)

\* PatentCache.get_cached_patent: self.cache.get(query, {}).get("patent_data", {})
get_cached_patent(c, query) ==
    IF c.kind # "dict" THEN Raise(<<"AttributeError">>)
    ELSE IF query \notin DOMAIN c.map THEN Ok(EmptyRecord)
    ELSE IF c.map[query].kind # "entry" THEN Raise(<<"AttributeError">>)
    ELSE Ok(c.map[query].patent_data)

\* A faulty clear: the mapping is emptied in memory only.
ClearWithoutSave(c, f) == [cache |-> JsonDict(EmptyMap), file |-> f]

\* PatentCache.clear_cache
clear_cache(c, f) ==
    LET c2 == JsonDict(EmptyMap)
    IN  [cache |-> c2, file |-> _save_cache(c2)]

\* ------------------------------------------------------------------------
\* SimplifiedPatentSearch._get_most_relevant_patent
\* ------------------------------------------------------------------------
HeadSize == 10

\* A faulty head: the whole result set is the sample.
HeadAll(df, k) == [i \in 1..df.n |-> Row(df, i)]

\* patents_df.head(k)
DfHead(df, k) == [i \in 1..Min(k, df.n) |-> Row(df, i)]

\* sample_patents['normalized_patent_number'] = ...apply(normalize)
WithNormalized(r) ==
    [empty |-> FALSE, rank |-> r.rank, patent_number |-> r.patent_number,
     normalized_patent_number |-> _normalize_patent_number(r.patent_number)]

\* A faulty selector: no early return for an empty DataFrame, so the model
\* is asked and the failing iloc[0] ends in the handler's empty record.
SelectWithoutEmptyGuard(query, df, llm) ==
    IF df.n = 0 THEN [record |-> EmptyRecord, llm_calls |-> 1]
    ELSE [record |-> Row(df, 1), llm_calls |-> 1]

\* sample_patents with the added column.
AddNormalized(head) == [i \in 1..Len(head) |-> WithNormalized(head[i])]

\* sample_patents[sample_patents[normalized...] == normalized_response]
MatchingRows(sample_patents, normalized_response) ==
    SelectSeq(sample_patents,
              LAMBDA r : r.normalized_patent_number = normalized_response)

\* The first matching row, or else sample_patents.iloc[0].
SelectFrom(sample_patents, most_relevant_patent) ==
    IF most_relevant_patent = <<>>
    THEN sample_patents[1]
    ELSE most_relevant_patent[1]

\* The try block after the model's answer.
SelectTry(sample_patents, normalized_response) ==
    SelectFrom(sample_patents,
               MatchingRows(sample_patents, normalized_response))

\* [record, llm_calls]: the dict returned and the number of model calls.
\* llm is the outcome of the one chat completion: it raises, or its
\* message content is a text or None (.strip() of None raises); the
\* handler returns patents_df.iloc[0].
_get_most_relevant_patent(query, df, llm) ==
    IF df.n = 0 THEN [record |-> EmptyRecord, llm_calls |-> 0]
    ELSE IF llm.kind # "content" \/ llm.content.kind # "str"
    THEN [record |-> Row(df, 1), llm_calls |-> 1]
    ELSE [record |->
              SelectTry(AddNormalized(DfHead(df, HeadSize)),
                        _normalize_patent_number(Strip(llm.content.s))),
          llm_calls |-> 1]

\* ------------------------------------------------------------------------
\* SimplifiedPatentSearch.search_patents
\* ------------------------------------------------------------------------
\* What a call returns and does when it writes nothing to the cache.
SearchWithoutWrite(c, f, df, calls, num_results) ==
    [df |-> df, cache |-> c, file |-> f, llm_calls |-> calls,
     cache_writes |-> 0, written |-> EmptyRecord, num |-> num_results]

\* After update_cache (upd): an exception ends in the handler, which
\* returns an empty DataFrame.
SearchAfterUpdate(c, f, df, sel, num_results, upd) ==
    IF upd.kind = "raise"
    THEN SearchWithoutWrite(c, f, EmptyDF, sel.llm_calls, num_results)
    ELSE [df |-> df, cache |-> upd.value.cache, file |-> upd.value.file,
          llm_calls |-> sel.llm_calls, cache_writes |-> 1,
          written |-> sel.record, num |-> num_results]

\* A faulty search: the selected record is not written to the cache.
SearchSkippingWrite(c, f, query, df, sel, num_results) ==
    SearchWithoutWrite(c, f, df, sel.llm_calls, num_results)

\* A faulty search: the first row is cached, not the selected record.
SearchWritingFirstRow(c, f, query, df, sel, num_results) ==
    IF sel.record = EmptyRecord
    THEN SearchWithoutWrite(c, f, df, sel.llm_calls, num_results)
    ELSE SearchAfterUpdate(c, f, df, sel, num_results,
                           update_cache(c, f, query, Row(df, 1)))

\* if most_relevant_patent: self.cache.update_cache(query, ...)
SearchAfterSelect(c, f, query, df, sel, num_results) ==
    IF sel.record = EmptyRecord
    THEN SearchWithoutWrite(c, f, df, sel.llm_calls, num_results)
    ELSE SearchAfterUpdate(c, f, df, sel, num_results,
                           update_cache(c, f, query, sel.record))

\* The DataFrame returned, cache and file after the call, the number of
\* model calls and cache writes made, and the record written.  provider is
\* the outcome of GoogleSearch(params).get_dict(), llm the outcome of the
\* selector's model call (made only for a non-empty DataFrame).
search_patents(c, f, query, num_results, provider, llm) ==
    IF provider.kind # "results"
    THEN SearchWithoutWrite(c, f, EmptyDF, 0, num_results)
    ELSE IF provider.df.n = 0
    THEN SearchWithoutWrite(c, f, provider.df, 0, num_results)
    ELSE SearchAfterSelect(c, f, query, provider.df,
                           _get_most_relevant_patent(query, provider.df, llm),
                           num_results)

\* ------------------------------------------------------------------------
\* SimplifiedPatentSearch.evaluate_search_results
\* ------------------------------------------------------------------------
\* "No search results were obtained." by code point
NoResultsMessage ==
    <<"u691C", "u7D22", "u7D50", "u679C", "u304C", "u5F97", "u3089",
      "u308C", "u307E", "u305B", "u3093", "u3067", "u3057", "u305F",
      "u3002">>
\* The text before str(err): "An error occurred during evaluation: "
EvaluationErrorLabel ==
    <<"u8A55", "u4FA1", "u4E2D", "u306B", "u30A8", "u30E9", "u30FC",
      "u304C", "u767A", "u751F", "u3057", "u307E", "u3057", "u305F", ":",
      " ">>

\* The try block: the chat completion and the message content.
EvaluateTry(query, df, llm) ==
    IF llm.kind = "raise" THEN Raise(llm.err) ELSE Ok(llm.content)

\* except Exception as err: the error text is returned.
OnEvaluate(r) ==
    IF r.kind = "raise"
    THEN [kind |-> "ok", value |-> Str(EvaluationErrorLabel \o r.err),
          llm_calls |-> 1]
    ELSE [kind |-> "ok", value |-> r.value, llm_calls |-> 1]

\* A faulty evaluator: the model is asked about an empty DataFrame too.
EvaluateWithoutEmptyGuard(query, df, llm) ==
    OnEvaluate(EvaluateTry(query, df, llm))

\* The value returned (a str, or None when the message content is None)
\* and the number of model calls made.
evaluate_search_results(query, df, llm) ==
    IF df.n = 0
    THEN [kind |-> "ok", value |-> Str(NoResultsMessage), llm_calls |-> 0]
    ELSE OnEvaluate(EvaluateTry(query, df, llm))

\* ------------------------------------------------------------------------
\* SimplifiedPatentSearch.optimize_query
\* ------------------------------------------------------------------------
DefaultNumResults == 100
MaxLength == 200
HistoryWindow == 3
TooManyResults == 1000

Ellipsis == <<".", ".", ".">>

\* A faulty truncation: the text is passed on whole.
TruncateNever(text) == text

\* truncate_text (len(None) raises; the caller checks for None first)
truncate_text(text) ==
    IF Len(text) > MaxLength
    THEN SubSeq(text, 1, MaxLength) \o Ellipsis
    ELSE text

\* xs[-k:]
LastK(xs, k) ==
    IF Len(xs) <= k THEN xs ELSE SubSeq(xs, Len(xs) - k + 1, Len(xs))

\* The label prefixes removed from the model's answer, in this order.
LabelSuggested == <<"u63D0", "u6848", "u30AF", "u30A8", "u30EA", ":", " ">>
LabelImproved == <<"u6539", "u5584", "u30AF", "u30A8", "u30EA", ":", " ">>
LabelOptimized ==
    <<"u6700", "u9069", "u5316", "u30AF", "u30A8", "u30EA", ":", " ">>
Prefixes == <<LabelSuggested, LabelImproved, LabelOptimized>>

\* The text before str(e): "An error occurred during optimization: "
OptimizationErrorLabel ==
    <<"u6700", "u9069", "u5316", "u4E2D", "u306B", "u30A8", "u30E9",
      "u30FC", "u304C", "u767A", "u751F", "u3057", "u307E", "u3057",
      "u305F", ":", " ">>

\* for prefix in [...]: if improved_query.startswith(prefix): cut it
RECURSIVE StripPrefixes(_, _)
StripPrefixes(improved_query, prefixes) ==
    IF prefixes = <<>> THEN improved_query
    ELSE StripPrefixes(
             IF StartsWith(improved_query, Head(prefixes))
             THEN DropPrefix(improved_query, Head(prefixes))
             ELSE improved_query,
             Tail(prefixes))

\* A faulty cleaning: the labels are left in place.
CleanKeepingLabels(content) == Strip(content)

\* content.strip(), the prefix loop, .strip()
CleanAnswer(content) == Strip(StripPrefixes(Strip(content), Prefixes))

\* The three-way branch on result_count.
Regime(result_count) ==
    IF result_count = 0 THEN "broaden"
    ELSE IF result_count > TooManyResults THEN "narrow"
    ELSE "hold"

\* The system prompt is the same text in every call.  It carries three
\* numbered instructions, each with the result counts it is for: 0
\* results (1), "1000 or more" results (2), "1-1000" results (3).  The
\* instructions that the prompt's own wording attaches to result_count:
PromptInstructions(result_count) ==
    {r \in {"broaden", "narrow", "hold"} :
        \/ r = "broaden" /\ result_count = 0
        \/ r = "narrow" /\ result_count >= TooManyResults
        \/ r = "hold" /\ result_count >= 1 /\ result_count <= TooManyResults}

\* zip(previous_queries[-3:], previous_evaluations[-3:])
ZipLast(previous_queries, previous_evaluations) ==
    LET qs == LastK(previous_queries, HistoryWindow)
        es == LastK(previous_evaluations, HistoryWindow)
    IN  [i \in 1..Min(Len(qs), Len(es)) |->
            [query |-> qs[i], evaluation |-> es[i]]]

\* The pairs of the history that go into the user message.
HistoryPairs(previous_queries, previous_evaluations) ==
    IF previous_queries # <<>> /\ previous_evaluations # <<>>
    THEN ZipLast(previous_queries, previous_evaluations)
    ELSE <<>>

\* What optimize_query has done when nothing has been sent yet.
NothingSent(query, evaluation, result_count) ==
    [new_query |-> query, evaluation |-> evaluation,
     result_count |-> result_count, rewrite_calls |-> 0,
     regime |-> "none", instructions |-> {}, context |-> <<>>,
     live |-> <<>>]

\* The user message: the truncated live evaluation and the truncated
\* evaluations of the pairs; the system prompt with its instructions.
Sent(base, evaluation, pairs) ==
    [base EXCEPT
       !.rewrite_calls = 1,
       !.instructions = PromptInstructions(base.result_count),
       !.live = truncate_text(evaluation.s),
       !.context =
          [i \in 1..Len(pairs) |->
             [query |-> pairs[i].query,
              evaluation |-> truncate_text(pairs[i].evaluation.s)]]]

\* The chat completion (rewrite is its outcome), the cleaning of the
\* answer and the branch on result_count.
AfterRewrite(sent, rewrite) ==
    IF rewrite.kind = "raise"
    THEN [kind |-> "raise", err |-> rewrite.err, at |-> sent]
    ELSE IF rewrite.content.kind # "str"
    THEN [kind |-> "raise", err |-> <<"AttributeError">>, at |-> sent]
    ELSE [kind |-> "ok",
          at |-> [sent EXCEPT
                    !.new_query = CleanAnswer(rewrite.content.s),
                    !.regime = Regime(sent.result_count)]]

\* Building the user message: truncate_text of None raises TypeError.
BuildAndAsk(base, evaluation, pairs, rewrite) ==
    IF evaluation.kind # "str"
       \/ \E i \in 1..Len(pairs) : pairs[i].evaluation.kind # "str"
    THEN [kind |-> "raise", err |-> <<"TypeError">>, at |-> base]
    ELSE AfterRewrite(Sent(base, evaluation, pairs), rewrite)

\* The try block, after the live search s and the live evaluation ev.
OptimizeTry(query, previous_queries, previous_evaluations, s, ev, rewrite) ==
    BuildAndAsk(NothingSent(query, ev.value, s.df.n), ev.value,
                HistoryPairs(previous_queries, previous_evaluations),
                rewrite)

\* A faulty handler: the error text is returned, the query is lost.
OnOptimizeErrorLosingQuery(query, t) ==
    [t.at EXCEPT
       !.new_query = <<>>,
       !.evaluation = Str(OptimizationErrorLabel \o t.err)]

\* except Exception as e: return query, f"...: {str(e)}"
OnOptimizeError(query, t) ==
    [t.at EXCEPT
       !.new_query = query,
       !.evaluation = Str(OptimizationErrorLabel \o t.err)]

\* The record returned: the pair (new_query, evaluation) and what the
\* call did (s: the live search, ev: the live evaluation).
OptimizeReturn(s, ev, failed, out) ==
    [kind |-> "ok", failed |-> failed,
     new_query |-> out.new_query, evaluation |-> out.evaluation,
     result_count |-> out.result_count, regime |-> out.regime,
     instructions |-> out.instructions,
     rewrite_calls |-> out.rewrite_calls,
     live |-> out.live, context |-> out.context,
     cache |-> s.cache, file |-> s.file, num |-> s.num,
     llm_calls |-> s.llm_calls + ev.llm_calls + out.rewrite_calls,
     cache_writes |-> s.cache_writes, written |-> s.written]

\* try: ... return improved_query, evaluation / except: the handler
OptimizeOutcome(query, s, ev, t) ==
    IF t.kind = "raise"
    THEN OptimizeReturn(s, ev, TRUE, OnOptimizeError(query, t))
    ELSE OptimizeReturn(s, ev, FALSE, t.at)

\* evaluation = self.evaluate_search_results(query, results) and on
OptimizeAfterEvaluate(query, previous_queries, previous_evaluations, s, ev, rewrite) ==
    OptimizeOutcome(query, s, ev,
                    OptimizeTry(query, previous_queries,
                                previous_evaluations, s, ev, rewrite))

\* results = self.search_patents(query) and on
OptimizeAfterSearch(query, previous_queries, previous_evaluations, s, eval_llm, rewrite) ==
    OptimizeAfterEvaluate(query, previous_queries, previous_evaluations, s,
                          evaluate_search_results(query, s.df, eval_llm),
                          rewrite)

\* A faulty optimizer: the live search asks for up to 2000 results.
OptimizeWithLargeCap(c, f, query, previous_queries, previous_evaluations, provider, sel_llm, eval_llm, rewrite) ==
    OptimizeAfterSearch(query, previous_queries, previous_evaluations,
                        search_patents(c, f, query, 2 * TooManyResults,
                                       provider, sel_llm),
                        eval_llm, rewrite)

\* optimize_query: the live search with the default num_results, the
\* live evaluation, then the rest of the try block; any exception
\* becomes (query, error text).
optimize_query(c, f, query, previous_queries, previous_evaluations, provider, sel_llm, eval_llm, rewrite) ==
    OptimizeAfterSearch(query, previous_queries, previous_evaluations,
                        search_patents(c, f, query, DefaultNumResults,
                                       provider, sel_llm),
                        eval_llm, rewrite)

\* ------------------------------------------------------------------------
\* State
\* ------------------------------------------------------------------------
VARIABLES
    file,           \* patent_cache.json
    cache,          \* PatentCache.cache of the one searcher
    pc,             \* position of main, or of the caller of the object
    args,           \* the parsed command line
    iteration,      \* the loop variable of main (0-based)
    current_query,  \* main's current_query
    results,        \* main's results, as left by the last search
    query_history,  \* main's query_history, a sequence of rows
    obs,            \* what the run has done so far (not program state)
    call,           \* the method call under study and its inputs
    last            \* what that call returned and did

vars == <<file, cache, pc, args, iteration, current_query, results,
          query_history, obs, call, last>>

Unloaded == [kind |-> "unloaded"]
NoCall == [op |-> "none"]

\* ------------------------------------------------------------------------
\* Inputs of the search loop
\* ------------------------------------------------------------------------
MaxIterations == 3

Q0 == <<"a", "b">>
Q1 == <<"A", "B">>
Timeout == <<"t", "i", "m", "e", "o", "u", "t">>
GoodText == <<"g", "o", "o", "d">>

WellFormedMap == [q \in {Q0} |-> CacheEntryOf(Row([n |-> 1, pat |-> "dash"], 1))]
HandEditedMap == [q \in {Q0} |-> ScalarEntry]

InitialFiles ==
    {FileAbsent, FileNotUtf8, FileNotJson, FileJson(JsonList),
     FileJson(JsonDict(EmptyMap)), FileJson(JsonDict(WellFormedMap)),
     FileJson(JsonDict(HandEditedMap))}

ArgSets ==
    [query : {Q0}, optimize : BOOLEAN, results : {DefaultNumResults},
     iterations : 1..MaxIterations]

LoopProviders ==
    {ProviderRaise, ProviderNoOrganic, ProviderResults(EmptyDF),
     ProviderResults([n |-> 11, pat |-> "dash"])}

LoopSelectLlm ==
    {LlmRaise(Timeout), LlmContent(Str(<<"j", "p", "2", "a", "\n">>)),
     LlmContent(Str(<<"X">>))}

LoopEvaluateLlm ==
    {LlmRaise(Timeout), LlmContent(NoneValue), LlmContent(Str(GoodText))}

LoopRewriteLlm ==
    {LlmRaise(Timeout), LlmContent(NoneValue),
     LlmContent(Str(LabelSuggested \o Q1)), LlmContent(Str(<<" ">> \o Q0))}

\* ------------------------------------------------------------------------
\* main: the search loop
\* ------------------------------------------------------------------------
Init ==
    /\ file \in InitialFiles
    /\ cache = Unloaded
    /\ pc = "construct"
    /\ args \in ArgSets
    /\ iteration = 0
    /\ current_query = <<>>
    /\ results = EmptyDF
    /\ query_history = <<>>
    /\ obs = [ran |-> {}, empty_at |-> 0, provider_nonempty |-> TRUE,
              raised |-> FALSE, returned |-> <<>>, searched |-> <<>>,
              optimized |-> <<>>]
    /\ call = NoCall
    /\ last = NoCall

\* searcher = SimplifiedPatentSearch(); current_query = args.query.  An
\* exception of the constructor is caught by main's handler, which logs it.
Construct ==
    /\ pc = "construct"
    /\ LET l == _load_cache(file)
       IN  IF l.kind = "raise"
           THEN /\ pc' = "done"
                /\ obs' = [obs EXCEPT !.raised = TRUE]
                /\ UNCHANGED <<cache, current_query>>
           ELSE /\ pc' = "search"
                /\ cache' = l.value
                /\ current_query' = args.query
                /\ obs' = obs
    /\ UNCHANGED <<file, args, iteration, results, query_history, call, last>>

\* A faulty loop: no break on an empty DataFrame.
AfterSearchNoBreak(df) == "evaluate"

\* if results.empty: break
AfterSearch(df) == IF df.n = 0 THEN "save" ELSE "evaluate"

\* results = searcher.search_patents(current_query, args.results), and the
\* break on an empty DataFrame.
SearchStep ==
    /\ pc = "search"
    /\ \E provider \in LoopProviders, llm \in LoopSelectLlm :
         LET r == search_patents(cache, file, current_query, args.results,
                                 provider, llm)
             nonempty == provider.kind = "results" /\ provider.df.n > 0
             count == IF provider.kind = "results" THEN provider.df.n ELSE 0
         IN  /\ cache' = r.cache
             /\ file' = r.file
             /\ results' = r.df
             /\ pc' = AfterSearch(r.df)
             /\ obs' = [obs EXCEPT
                          !.ran = @ \cup {<<iteration + 1, "search">>},
                          !.empty_at = IF r.df.n = 0 THEN iteration + 1 ELSE @,
                          !.provider_nonempty = @ /\ nonempty,
                          !.returned = Append(@, count),
                          !.searched = Append(@, current_query)]
    /\ UNCHANGED <<args, iteration, current_query, query_history, call, last>>

\* A faulty condition: the final iteration optimizes too.
ShouldOptimizeAlways(a, i) == a.optimize

\* if args.optimize and iteration < args.iterations - 1:
ShouldOptimize(a, i) == a.optimize /\ i < a.iterations - 1

\* A faulty loop: one pass more than args.iterations.
NextPcOneMore(i) == IF i + 1 < args.iterations + 1 THEN "search" ELSE "save"

\* The end of one pass of the loop body: the next pass, or the loop's end.
NextPc(i) == IF i + 1 < args.iterations THEN "search" ELSE "save"

\* evaluation = searcher.evaluate_search_results(current_query, results)
\* and the row appended to query_history.
EvaluateStep ==
    /\ pc = "evaluate"
    /\ \E llm \in LoopEvaluateLlm :
         LET ev == evaluate_search_results(current_query, results, llm)
             row == [iteration |-> iteration + 1, query |-> current_query,
                     num_results |-> results.n, evaluation |-> ev.value]
         IN  /\ query_history' = Append(query_history, row)
             /\ obs' = [obs EXCEPT
                          !.ran = @ \cup {<<iteration + 1, "evaluate">>}]
    /\ IF ShouldOptimize(args, iteration)
       THEN pc' = "optimize" /\ iteration' = iteration
       ELSE pc' = NextPc(iteration) /\ iteration' = iteration + 1
    /\ UNCHANGED <<file, cache, args, current_query, results, call, last>>

Column(history, name) == [i \in 1..Len(history) |-> history[i][name]]

\* current_query, _ = searcher.optimize_query(current_query, ...)
OptimizeStep ==
    /\ pc = "optimize"
    /\ \E provider \in LoopProviders, sel_llm \in LoopSelectLlm,
          eval_llm \in LoopEvaluateLlm, rewrite \in LoopRewriteLlm :
         LET o == optimize_query(cache, file, current_query,
                                 Column(query_history, "query"),
                                 Column(query_history, "evaluation"),
                                 provider, sel_llm, eval_llm, rewrite)
         IN  /\ current_query' = o.new_query
             /\ cache' = o.cache
             /\ file' = o.file
             /\ obs' = [obs EXCEPT
                          !.ran = @ \cup {<<iteration + 1, "optimize">>},
                          !.optimized = Append(@, o.new_query)]
    /\ pc' = NextPc(iteration)
    /\ iteration' = iteration + 1
    /\ UNCHANGED <<args, results, query_history, call, last>>

\* save_query_history(query_history, args.query): its errors are logged.
SaveStep ==
    /\ pc = "save"
    /\ pc' = "done"
    /\ UNCHANGED <<file, cache, args, iteration, current_query, results,
                   query_history, obs, call, last>>

Next ==
    \/ Construct
    \/ SearchStep
    \/ EvaluateStep
    \/ OptimizeStep
    \/ SaveStep

Spec == Init /\ [][Next]_vars

\* ------------------------------------------------------------------------
\* PatentCache used on its own: construction, then update_cache,
\* get_cached_patent and clear_cache in any order.  obs.puts is the record
\* of the last completed put of each query since the last clear.
\* ------------------------------------------------------------------------
CacheQueries == {Q0, Q1}

PutRecords ==
    {Row([n |-> 11, pat |-> "dash"], 1),
     WithNormalized(Row([n |-> 11, pat |-> "lower"], 2))}

CacheInit ==
    /\ file \in InitialFiles
    /\ cache = Unloaded
    /\ pc = "construct"
    /\ args = NoCall
    /\ iteration = 0
    /\ current_query = <<>>
    /\ results = EmptyDF
    /\ query_history = <<>>
    /\ obs = [puts |-> EmptyMap, cleared |-> FALSE, initial_file |-> file]
    /\ call = NoCall
    /\ last = NoCall

CacheUnused == <<args, iteration, current_query, results, query_history, call>>

\* PatentCache.__init__
CacheConstruct ==
    /\ pc = "construct"
    /\ LET l == _load_cache(file)
       IN  /\ last' = [op |-> "load", kind |-> l.kind]
           /\ IF l.kind = "raise"
              THEN pc' = "failed" /\ cache' = cache
              ELSE pc' = "ready" /\ cache' = l.value
    /\ UNCHANGED <<file, obs>>
    /\ UNCHANGED CacheUnused

CachePut ==
    /\ pc = "ready"
    /\ \E q \in CacheQueries, rec \in PutRecords :
         LET u == update_cache(cache, file, q, rec)
         IN  /\ last' = [op |-> "put", kind |-> u.kind]
             /\ IF u.kind = "raise"
                THEN UNCHANGED <<cache, file, obs>>
                ELSE /\ cache' = u.value.cache
                     /\ file' = u.value.file
                     /\ obs' = [obs EXCEPT !.puts = (q :> rec) @@ @]
    /\ UNCHANGED pc
    /\ UNCHANGED CacheUnused

CacheGet ==
    /\ pc = "ready"
    /\ \E q \in CacheQueries :
         last' = [op |-> "get", kind |-> get_cached_patent(cache, q).kind]
    /\ UNCHANGED <<file, cache, pc, obs>>
    /\ UNCHANGED CacheUnused

CacheClear ==
    /\ pc = "ready"
    /\ LET u == clear_cache(cache, file)
       IN  /\ cache' = u.cache
           /\ file' = u.file
    /\ obs' = [obs EXCEPT !.puts = EmptyMap, !.cleared = TRUE]
    /\ last' = [op |-> "clear", kind |-> "ok"]
    /\ UNCHANGED pc
    /\ UNCHANGED CacheUnused

CacheNext ==
    \/ CacheConstruct
    \/ CachePut
    \/ CacheGet
    \/ CacheClear

CacheSpec == CacheInit /\ [][CacheNext]_vars

\* ------------------------------------------------------------------------
\* Two processes, each with its own PatentCache on the one file
\* patent_cache.json.  cache[p] is the mapping of the instance of process
\* p.  update_cache takes two steps: the item assignment in memory and
\* open(cache_file, 'w'), which empties the file; then json.dump and the
\* close, which write the instance's whole mapping from offset 0.  A dump
\* that lands on bytes another process has written since this process
\* opened the file leaves this mapping's text, followed by the rest of the
\* other text when that was longer: a file that is no JSON document.
\* obs.loaded[p] and obs.put_keys[p] are the keys p got from the file and
\* the keys p has put; obs.writer is the process whose dump the file
\* holds (0: none); obs.flushed holds <<p, q>> once an entry put by p under
\* q has been in the file; obs.overlapped tells whether two puts ever
\* overlapped in time.
\* ------------------------------------------------------------------------
Procs == {1, 2}

SharedInit ==
    /\ file \in InitialFiles
    /\ cache = [p \in Procs |-> Unloaded]
    /\ pc = [p \in Procs |-> "construct"]
    /\ args = NoCall
    /\ iteration = 0
    /\ current_query = <<>>
    /\ results = EmptyDF
    /\ query_history = <<>>
    /\ obs = [loaded |-> [p \in Procs |-> {}],
              put_keys |-> [p \in Procs |-> {}],
              dirty |-> [p \in Procs |-> FALSE],
              writer |-> 0, flushed |-> {}, overlapped |-> FALSE]
    /\ call = NoCall
    /\ last = NoCall

SharedUnused == <<args, iteration, current_query, results, query_history, call>>

\* PatentCache.__init__ in process p: the one load of the file.
SharedConstruct(p) ==
    /\ pc[p] = "construct"
    /\ LET l == _load_cache(file)
       IN  /\ last' = [op |-> "load", kind |-> l.kind, proc |-> p]
           /\ IF l.kind = "raise"
              THEN /\ pc' = [pc EXCEPT ![p] = "failed"]
                   /\ UNCHANGED <<cache, obs>>
              ELSE /\ pc' = [pc EXCEPT ![p] = "ready"]
                   /\ cache' = [cache EXCEPT ![p] = l.value]
                   /\ obs' = [obs EXCEPT
                                !.loaded[p] =
                                    IF l.value.kind = "dict"
                                    THEN DOMAIN l.value.map ELSE {}]
    /\ UNCHANGED file
    /\ UNCHANGED SharedUnused

\* update_cache in process p, up to open(cache_file, 'w'): the item
\* assignment (TypeError on a value that is no mapping) and the emptied
\* file.
SharedOpen(p) ==
    /\ pc[p] = "ready"
    /\ \E q \in CacheQueries, rec \in PutRecords :
         IF cache[p].kind # "dict"
         THEN /\ last' = [op |-> "put", kind |-> "raise", proc |-> p]
              /\ UNCHANGED <<file, cache, pc, obs>>
         ELSE /\ cache' = [cache EXCEPT
                             ![p] = JsonDict(SetItem(cache[p].map, q,
                                                     CacheEntryOf(rec)))]
              /\ file' = FileNotJson
              /\ pc' = [pc EXCEPT ![p] = "writing"]
              /\ last' = [op |-> "open", kind |-> "ok", proc |-> p]
              /\ obs' = [obs EXCEPT
                           !.put_keys[p] = @ \cup {q},
                           !.dirty[p] = FALSE,
                           !.writer = 0,
                           !.overlapped =
                               @ \/ \E o \in Procs \ {p} : pc[o] = "writing"]
    /\ UNCHANGED SharedUnused

\* json.dump(self.cache, f) and the close in process p.
SharedDump(p) ==
    /\ pc[p] = "writing"
    /\ \E torn \in {FALSE, obs.dirty[p]} :
         /\ file' = IF torn THEN FileNotJson ELSE _save_cache(cache[p])
         /\ obs' = [obs EXCEPT
                      !.writer = IF torn THEN 0 ELSE p,
                      !.flushed =
                          IF torn THEN @
                          ELSE @ \cup {<<p, q>> : q \in obs.put_keys[p]},
                      !.dirty = [o \in Procs |->
                                    IF o # p /\ pc[o] = "writing"
                                    THEN TRUE ELSE obs.dirty[o]]]
    /\ pc' = [pc EXCEPT ![p] = "ready"]
    /\ last' = [op |-> "put", kind |-> "ok", proc |-> p]
    /\ UNCHANGED cache
    /\ UNCHANGED SharedUnused

SharedNext ==
    \/ \E p \in Procs : SharedConstruct(p)
    \/ \E p \in Procs : SharedOpen(p)
    \/ \E p \in Procs : SharedDump(p)

SharedSpec == SharedInit /\ [][SharedNext]_vars

\* ------------------------------------------------------------------------
\* One call of a method of SimplifiedPatentSearch, on inputs and
\* collaborator outcomes drawn from the sets below.
\* ------------------------------------------------------------------------
CallDFs ==
    {EmptyDF, [n |-> 1, pat |-> "dash"], [n |-> 10, pat |-> "lower"],
     [n |-> 11, pat |-> "dash"], [n |-> 11, pat |-> "cycle"],
     [n |-> 50, pat |-> "lower"], [n |-> 1000, pat |-> "dash"],
     [n |-> 1001, pat |-> "dash"], [n |-> 1500, pat |-> "dash"]}

CallProviders ==
    {ProviderRaise, ProviderNoOrganic} \cup {ProviderResults(d) : d \in CallDFs}

\* Answers of the selector's model: an identifier of rank 2 in another
\* spelling, one of rank 11, one of rank 3 (and 6, 9) of "cycle", and one
\* of no record; a failure; no content.
CallSelectLlm ==
    {LlmRaise(Timeout), LlmContent(NoneValue),
     LlmContent(Str(<<" ", "j", "p", "-", "2", " ", "a", "\n">>)),
     LlmContent(Str(<<"J", "P", "1", "1", "A">>)),
     LlmContent(Str(<<"j", "p", "3">>)),
     LlmContent(Str(<<"X">>))}

CallEvaluateLlm ==
    {LlmRaise(Timeout), LlmContent(NoneValue), LlmContent(Str(GoodText))}

\* Answers of the rewrite model: whitespace, labels, a text, whitespace.
AnswerMargins == {<<>>, <<" ">>}
AnswerLabels ==
    {<<>>, LabelSuggested, LabelImproved, LabelOptimized,
     LabelSuggested \o LabelImproved, LabelImproved \o LabelSuggested,
     SubSeq(LabelOptimized, 1, Len(LabelOptimized) - 1)}
AnswerTexts == {<<>>, Q1, <<" ">> \o Q0}
RewriteAnswers ==
    {l \o ls \o t \o r :
        l \in AnswerMargins, ls \in AnswerLabels, t \in AnswerTexts,
        r \in AnswerMargins}

CallRewriteLlm ==
    {LlmRaise(Timeout), LlmContent(NoneValue)}
        \cup {LlmContent(Str(a)) : a \in RewriteAnswers}

\* Histories handed to optimize_query: rows of earlier iterations.
CallHistories ==
    {<<>>,
     <<[query |-> Q0, evaluation |-> Str(GoodText)]>>,
     <<[query |-> Q0, evaluation |-> NoneValue],
       [query |-> Q0, evaluation |-> Str(GoodText)],
       [query |-> Q1, evaluation |-> Str(EvaluationErrorLabel \o Timeout)],
       [query |-> Q1, evaluation |-> Str(GoodText)]>>,
     <<[query |-> Q0, evaluation |-> NoneValue]>>}

CallCaches == {JsonDict(EmptyMap), JsonDict(WellFormedMap), JsonList}

OptimizeProviders ==
    {ProviderRaise}
        \cup {ProviderResults([n |-> k, pat |-> "dash"]) :
                 k \in {0, 1, 50, 1000, 1001, 1500}}

\* Identifier strings handed to _normalize_patent_number: every string of
\* at most MaxIdLen characters of IdChars, and the two spellings of one
\* publication number.
MaxIdLen == 3
IdChars == {"a", "A", "1", "-", "u01F0"}
RECURSIVE StringsUpTo(_)
StringsUpTo(k) ==
    IF k = 0 THEN {<<>>}
    ELSE LET shorter == StringsUpTo(k - 1)
         IN  shorter \cup {Append(t, c) : t \in shorter, c \in IdChars}
SpelledWithSeparators ==
    <<"J", "P", "-", "2", "0", "2", "0", "-", "1", "2", "3", "4", "5", "6",
      " ", "A">>
SpelledPlain ==
    <<"j", "p", "2", "0", "2", "0", "1", "2", "3", "4", "5", "6", "a">>
IdStrings == StringsUpTo(MaxIdLen) \cup {SpelledWithSeparators, SpelledPlain}

NormalizeCalls == [op : {"normalize"}, patent_number : IdStrings]
\* Evaluation texts around the length limit: n characters, the digits in
\* turn.  A history of five rows with such evaluations, and live
\* evaluations of such lengths.
LongText(n) == [i \in 1..n |-> DigitChars[(i % 10) + 1]]
LongHistory ==
    <<[query |-> Q0, evaluation |-> Str(LongText(MaxLength + 50))],
      [query |-> Q1, evaluation |-> Str(GoodText)],
      [query |-> Q0, evaluation |-> Str(LongText(MaxLength + 1))],
      [query |-> Q1, evaluation |-> Str(LongText(MaxLength))],
      [query |-> Q1, evaluation |-> Str(LongText(MaxLength + 50))]>>
LongEvaluateLlm ==
    {LlmContent(Str(LongText(n))) :
        n \in {MaxLength - 1, MaxLength, MaxLength + 1, MaxLength + 50}}
LongTextCalls ==
    [op : {"optimize"}, query : {Q0},
     history : {LongHistory, SubSeq(LongHistory, 1, 2)},
     provider : {ProviderResults([n |-> k, pat |-> "dash"]) : k \in {0, 50}},
     sel_llm : {LlmContent(Str(<<"X">>))},
     eval_llm : LongEvaluateLlm \cup {LlmRaise(Timeout)},
     rewrite : {LlmRaise(Timeout), LlmContent(Str(Q1))}]

SelectCalls ==
    [op : {"select"}, query : {Q0}, df : CallDFs, llm : CallSelectLlm]
SearchCalls ==
    [op : {"search"}, query : {Q0, Q1},
     num_results : {DefaultNumResults, 2 * TooManyResults},
     provider : CallProviders, llm : CallSelectLlm]
EvaluateCalls ==
    [op : {"evaluate"}, query : {Q0}, df : CallDFs, llm : CallEvaluateLlm]
OptimizeCalls ==
    [op : {"optimize"}, query : {Q0}, history : CallHistories,
     provider : OptimizeProviders, sel_llm : {LlmContent(Str(<<"X">>))},
     eval_llm : CallEvaluateLlm, rewrite : CallRewriteLlm]

CallInit ==
    /\ cache \in CallCaches
    /\ file = FileJson(cache)
    /\ pc = "call"
    /\ args = NoCall
    /\ iteration = 0
    /\ current_query = <<>>
    /\ results = EmptyDF
    /\ query_history = <<>>
    /\ obs = [cache0 |-> cache, file0 |-> file]
    /\ call \in NormalizeCalls \cup SelectCalls \cup SearchCalls
                 \cup EvaluateCalls \cup OptimizeCalls \cup LongTextCalls
    /\ last = NoCall

CallUnused == <<args, iteration, current_query, results, query_history, obs, call>>

CallNormalize ==
    /\ pc = "call" /\ call.op = "normalize"
    /\ last' = [value |-> _normalize_patent_number(call.patent_number)]
    /\ pc' = "returned"
    /\ UNCHANGED <<file, cache>>
    /\ UNCHANGED CallUnused

CallSelect ==
    /\ pc = "call" /\ call.op = "select"
    /\ last' = _get_most_relevant_patent(call.query, call.df, call.llm)
    /\ pc' = "returned"
    /\ UNCHANGED <<file, cache>>
    /\ UNCHANGED CallUnused

CallSearch ==
    /\ pc = "call" /\ call.op = "search"
    /\ LET r == search_patents(cache, file, call.query, call.num_results,
                               call.provider, call.llm)
       IN  /\ last' = r
           /\ cache' = r.cache
           /\ file' = r.file
    /\ pc' = "returned"
    /\ UNCHANGED CallUnused

CallEvaluate ==
    /\ pc = "call" /\ call.op = "evaluate"
    /\ last' = evaluate_search_results(call.query, call.df, call.llm)
    /\ pc' = "returned"
    /\ UNCHANGED <<file, cache>>
    /\ UNCHANGED CallUnused

CallOptimize ==
    /\ pc = "call" /\ call.op = "optimize"
    /\ LET o == optimize_query(cache, file, call.query,
                               Column(call.history, "query"),
                               Column(call.history, "evaluation"),
                               call.provider, call.sel_llm, call.eval_llm,
                               call.rewrite)
       IN  /\ last' = o
           /\ cache' = o.cache
           /\ file' = o.file
    /\ pc' = "returned"
    /\ UNCHANGED CallUnused

CallNext ==
    \/ CallNormalize
    \/ CallSelect
    \/ CallSearch
    \/ CallEvaluate
    \/ CallOptimize

CallSpec == CallInit /\ [][CallNext]_vars

\* ------------------------------------------------------------------------
\* Properties
\* ------------------------------------------------------------------------
Returned(op) == pc = "returned" /\ call.op = op

\* t contains e as a contiguous part.
Embeds(t, e) ==
    \E i \in 1..(Len(t) - Len(e) + 1) : SubSeq(t, i, i + Len(e) - 1) = e

AnswerOf(llm) == llm.kind = "content" /\ llm.content.kind = "str"

\* C1: select on a non-empty result set returns a record of the first 10:
\* one whose normalized identifier equals the normalized answer if the
\* first 10 hold such a record, and otherwise (no such record, or the model
\* call failed) the first record; never an empty record.
C1_SelectReturnsWindowRecord ==
    (Returned("select") /\ call.df.n > 0) =>
        LET window == 1..Min(10, call.df.n)
            MatchesAnswer(i) ==
                _normalize_patent_number(PatentNumberOf(call.df.pat, i))
                    = _normalize_patent_number(call.llm.content.s)
            hasMatch ==
                AnswerOf(call.llm) /\ \E i \in window : MatchesAnswer(i)
        IN  /\ last.record # EmptyRecord
            /\ last.record.rank \in window
            /\ last.record.patent_number
                   = PatentNumberOf(call.df.pat, last.record.rank)
            /\ hasMatch => MatchesAnswer(last.record.rank)
            /\ ~hasMatch => last.record.rank = 1

\* The answer names the 11th record of 11: the first record is returned.
C1_Witness ==
    /\ Returned("select")
    /\ call.df = [n |-> 11, pat |-> "dash"]
    /\ call.llm = LlmContent(Str(<<"J", "P", "1", "1", "A">>))
    /\ last.record.rank = 1

\* C2: once the loop's search of iteration k has returned an empty result
\* set, the loop is over: no row for iteration k, no evaluation and no
\* optimization in iteration k, nothing of a later iteration, and the
\* history has k - 1 rows.
C2_EmptyResultStopsLoop ==
    obs.empty_at # 0 =>
        LET k == obs.empty_at
        IN  /\ pc \in {"save", "done"}
            /\ Len(query_history) = k - 1
            /\ \A j \in 1..Len(query_history) : query_history[j].iteration < k
            /\ \A e \in obs.ran :
                  /\ e[1] <= k
                  /\ e[1] = k => e[2] = "search"

\* Three iterations asked for, an empty result set in the second.
C2_Witness ==
    /\ pc = "done"
    /\ args.iterations = 3
    /\ obs.empty_at = 2
    /\ Len(query_history) = 1

\* C3: a finished run in which the search collaborator returned a
\* non-empty list at every search of the loop has executed all N
\* iterations and holds N rows, whatever the model calls did and whatever
\* the cache file held.
C3_NonEmptyResultsRunAllIterations ==
    (pc = "done" /\ obs.provider_nonempty) =>
        /\ Len(query_history) = args.iterations
        /\ \A k \in 1..args.iterations : <<k, "search">> \in obs.ran

\* C4 as stated: optimize never raises, and a collaborator failure at any
\* step (live search, live evaluation, rewrite) makes it return the
\* original query with a text describing the error.
C4_AnyFailureReturnsOriginalQuery ==
    (/\ Returned("optimize")
     /\ \/ call.provider.kind = "raise"
        \/ call.provider.kind = "results" /\ call.provider.df.n > 0
             /\ call.eval_llm.kind = "raise"
        \/ call.rewrite.kind = "raise") =>
        /\ last.kind = "ok"
        /\ last.new_query = call.query
        /\ last.evaluation.kind = "str"
        /\ Embeds(last.evaluation.s, Timeout)

\* An evaluation that is None goes into the prompt: the live one (asked
\* for only when the live search returned records) or one of the last 3.
NoneInPrompt ==
    \/ last.result_count > 0 /\ call.eval_llm = LlmContent(NoneValue)
    \/ /\ call.history # <<>>
       /\ \E i \in 1..Len(call.history) :
             /\ i > Len(call.history) - 3
             /\ call.history[i].evaluation = NoneValue

\* C4 as amended: optimize never raises.  It returns the original query
\* with a text describing the error when the rewrite call fails or has no
\* content, or when an evaluation that goes into the prompt is None.  A
\* failure of the live search or of the live evaluation call is absorbed
\* before that (count 0 and the no-results message; the evaluator's error
\* text): the rewrite call is still made and its cleaned answer returned.
C4_RewriteFailureReturnsOriginalQuery ==
    Returned("optimize") =>
        /\ last.kind = "ok"
        /\ (~AnswerOf(call.rewrite) \/ NoneInPrompt) =>
              /\ last.failed
              /\ last.new_query = call.query
              /\ last.evaluation.kind = "str"
              /\ StartsWith(last.evaluation.s, OptimizationErrorLabel)
              /\ call.rewrite.kind = "raise" /\ ~NoneInPrompt =>
                    Embeds(last.evaluation.s, call.rewrite.err)
        /\ (AnswerOf(call.rewrite) /\ ~NoneInPrompt) =>
              /\ ~last.failed
              /\ last.rewrite_calls = 1
              /\ last.new_query = CleanAnswer(call.rewrite.content.s)
              /\ call.provider.kind = "raise" =>
                    /\ last.result_count = 0
                    /\ last.evaluation = Str(NoResultsMessage)
              /\ (last.result_count > 0 /\ call.eval_llm.kind = "raise") =>
                    last.evaluation
                        = Str(EvaluationErrorLabel \o call.eval_llm.err)

\* The live search fails, the rewrite succeeds: the query changes.
C4_Witness ==
    /\ Returned("optimize")
    /\ call.provider.kind = "raise"
    /\ call.rewrite = LlmContent(Str(LabelSuggested \o Q1))
    /\ last.new_query = Q1
    /\ last.evaluation = Str(NoResultsMessage)

WellFormedFile(f) ==
    /\ f.kind = "json"
    /\ f.value.kind = "dict"
    /\ \A q \in DOMAIN f.value.map : f.value.map[q].kind = "entry"

\* C5: load never raises; from a file that is absent, unparseable or of
\* an unexpected shape it yields the empty mapping, and every later put,
\* get and clear succeeds.
C5_LoadToleratesAnyFile ==
    (pc # "construct" /\ ~WellFormedFile(obs.initial_file)) =>
        /\ pc = "ready"
        /\ last.op = "load" => cache = JsonDict(EmptyMap)
        /\ last.kind = "ok"

\* What the file held for q when the cache was constructed.
LoadedRecord(q) ==
    IF /\ WellFormedFile(obs.initial_file)
       /\ q \in DOMAIN obs.initial_file.value.map
    THEN obs.initial_file.value.map[q].patent_data
    ELSE EmptyRecord

\* C6: get(q) is the record of the last put(q, .) since the last clear;
\* with no such put it is empty after a clear or a start from no entries,
\* and otherwise the record loaded for q.  Keys are exact: a put of one
\* query string leaves the entry of every other string alone.
C6_GetReturnsLastPut ==
    pc = "ready" =>
        \A q \in CacheQueries :
            /\ q \in DOMAIN obs.puts =>
                  get_cached_patent(cache, q) = Ok(obs.puts[q])
            /\ (q \notin DOMAIN obs.puts /\ obs.cleared) =>
                  get_cached_patent(cache, q) = Ok(EmptyRecord)
            /\ (/\ q \notin DOMAIN obs.puts
                /\ ~obs.cleared
                /\ \/ WellFormedFile(obs.initial_file)
                   \/ obs.initial_file.kind \in {"absent", "not_json"}) =>
                  get_cached_patent(cache, q) = Ok(LoadedRecord(q))

\* After a clear, two queries that differ in case only hold two records.
C6_Witness ==
    /\ pc = "ready"
    /\ obs.cleared
    /\ DOMAIN obs.puts = {Q0, Q1}
    /\ obs.puts[Q0] # obs.puts[Q1]
    /\ last = [op |-> "get", kind |-> "ok"]

\* The regime the claim gives a result count.
ClaimedRegime(count) ==
    IF count = 0 THEN "broaden" ELSE IF count > 1000 THEN "narrow" ELSE "hold"

\* C7: the live result count falls in exactly one regime, which selects
\* the instruction the rewrite prompt gives for it: 0 broaden, more than
\* 1000 narrow, 1 to 1000 hold.
C7_OneInstructionPerCount ==
    (Returned("optimize") /\ last.rewrite_calls = 1) =>
        /\ last.instructions = {ClaimedRegime(last.result_count)}
        /\ ~last.failed => last.regime = ClaimedRegime(last.result_count)

LabelAt(s) == {i \in 1..Len(Prefixes) : StartsWith(s, Prefixes[i])}

\* C8 as stated: an answer made of whitespace, a label, a text (not
\* blank) and whitespace yields the text, trimmed; an answer without a
\* label yields the answer, trimmed.
C8_LabelRemovedTextKept ==
    (Returned("optimize") /\ ~last.failed) =>
        LET answer == call.rewrite.content.s
            body == LStrip(answer)
        IN  /\ LabelAt(body) = {} => last.new_query = Strip(answer)
            /\ \A i \in LabelAt(body) :
                  LET text == DropPrefix(body, Prefixes[i])
                  IN  Strip(text) # <<>> => last.new_query = Strip(text)

\* C8 as amended: the answer is trimmed first; if it then starts with a
\* label (trailing blank included, so some text must follow the label),
\* the label is removed, and so is a label later in the list that follows
\* it directly; the rest, trimmed, is the new query.  An answer that,
\* trimmed, starts with no label yields the trimmed answer.
C8_LabelsRemovedInListOrder ==
    (Returned("optimize") /\ ~last.failed) =>
        LET trimmed == Strip(call.rewrite.content.s)
        IN  /\ LabelAt(trimmed) = {} => last.new_query = trimmed
            /\ \A i \in LabelAt(trimmed) :
                  LET rest == DropPrefix(trimmed, Prefixes[i])
                      later == {j \in LabelAt(rest) : j > i}
                  IN  /\ later = {} => last.new_query = Strip(rest)
                      /\ \A j \in later :
                            LET rest2 == DropPrefix(rest, Prefixes[j])
                            IN  {k \in LabelAt(rest2) : k > j} = {} =>
                                   last.new_query = Strip(rest2)

\* One label, a text, whitespace around both.
C8_Witness ==
    /\ Returned("optimize")
    /\ ~last.failed
    /\ call.rewrite = LlmContent(Str(<<" ">> \o LabelImproved \o Q1 \o <<" ">>))
    /\ last.new_query = Q1

\* C9: select on an empty result set returns an empty record without a
\* model call, and a search that yields no records calls neither the
\* model nor the cache.
C9_EmptyResultSetNoCallNoWrite ==
    /\ (Returned("select") /\ call.df.n = 0) =>
          /\ last.record = EmptyRecord
          /\ last.llm_calls = 0
          /\ cache = obs.cache0 /\ file = obs.file0
    /\ (/\ Returned("search")
        /\ \/ call.provider.kind # "results"
           \/ call.provider.df.n = 0) =>
          /\ last.llm_calls = 0
          /\ last.cache_writes = 0
          /\ cache = obs.cache0 /\ file = obs.file0

C9_Witness ==
    /\ Returned("select")
    /\ call.df.n = 0
    /\ call.llm = LlmContent(Str(<<"X">>))
    /\ last.record = EmptyRecord

\* C10: evaluate never raises; for an empty result set it returns the
\* fixed message and makes no model call; when the model call fails it
\* returns a text that contains the failure's description.
C10_EvaluateAbsorbsFailure ==
    Returned("evaluate") =>
        /\ last.kind = "ok"
        /\ call.df.n = 0 =>
              /\ last.value = Str(NoResultsMessage)
              /\ last.llm_calls = 0
        /\ (call.df.n > 0 /\ call.llm.kind = "raise") =>
              /\ last.value.kind = "str"
              /\ Embeds(last.value.s, call.llm.err)
              /\ last.value.s # call.llm.err

C10_Witness ==
    /\ Returned("evaluate")
    /\ call.df.n > 0
    /\ call.llm = LlmRaise(Timeout)
    /\ last.value = Str(EvaluationErrorLabel \o Timeout)

\* C11: every row of the history has as num_results the number of records
\* the search collaborator returned for the search of the row's iteration,
\* and the cache holds an entry under the row's query string as searched;
\* a finished run with iterations = 1, no optimization and a non-empty
\* search result has exactly one row, of iteration 1, and a cache entry
\* under the initial query whose record is a row of the result.
C11_RowMatchesSearchAndCache ==
    /\ \A j \in 1..Len(query_history) :
          /\ query_history[j].num_results = obs.returned[j]
          /\ cache.kind = "dict"
          /\ query_history[j].query \in DOMAIN cache.map
          /\ cache.map[query_history[j].query].kind = "entry"
    /\ (pc = "done" /\ ~obs.raised /\ args.iterations = 1
            /\ ~args.optimize /\ results.n > 0) =>
          /\ Len(query_history) = 1
          /\ query_history[1].iteration = 1
          /\ query_history[1].query = args.query
          /\ query_history[1].num_results = results.n
          /\ cache.map[args.query].patent_data.rank \in 1..results.n
          /\ file = FileJson(cache)

\* One iteration without optimization on 11 records and a cache file that
\* held no entry: one row, one entry.
C11_Witness ==
    /\ pc = "done"
    /\ args.iterations = 1 /\ ~args.optimize
    /\ Len(query_history) = 1
    /\ query_history[1].num_results = 11
    /\ obs.returned = <<11>>
    /\ DOMAIN cache.map = {args.query}

\* x and y have the same letters and digits in the same order, up to the
\* case of the letters.
SameUpToCaseAndSeparators(x, y) ==
    LET kx == KeepAlnum(x)
        ky == KeepAlnum(y)
    IN  /\ Len(kx) = Len(ky)
        /\ \A i \in 1..Len(kx) : ToLower(kx[i]) = ToLower(ky[i])

\* C12: _normalize_patent_number returns a string for every identifier
\* string, its result normalizes to itself, and two identifier strings that
\* differ only in case and in characters that are not alphanumeric have
\* the same result.
C12_NormalizeIdempotent ==
    Returned("normalize") =>
        /\ _normalize_patent_number(last.value) = last.value
        /\ \A y \in IdStrings :
              SameUpToCaseAndSeparators(call.patent_number, y) =>
                  _normalize_patent_number(y) = last.value

\* C13: the record select returns for a non-empty result set, and the
\* record a search writes to the cache and to the cache file, is a row of
\* the result set as the provider gave it: the raw patent_number and no
\* column holding its normalized form.
C13_NormalizedFormNeverStored ==
    /\ (Returned("select") /\ call.df.n > 0) =>
          last.record = Row(call.df, last.record.rank)
    /\ (Returned("search") /\ last.cache_writes = 1) =>
          /\ last.written = Row(call.provider.df, last.written.rank)
          /\ cache.map[call.query].patent_data
                 = Row(call.provider.df, last.written.rank)
          /\ file = FileJson(cache)

\* C14: a search call asks the selector's model at most once and writes
\* the cache at most once.  Without a write, cache and file are as before
\* the call.  A write follows the one selector decision, puts the record
\* the selector returned under the query string exactly as passed, leaves
\* every other entry as it was, and is flushed to the file.
C14_OneDecisionOneWritePerSearch ==
    Returned("search") =>
        /\ last.llm_calls \in {0, 1}
        /\ last.cache_writes \in {0, 1}
        /\ last.cache_writes = 0 => cache = obs.cache0 /\ file = obs.file0
        /\ last.cache_writes = 1 =>
              /\ call.provider.kind = "results"
              /\ last.llm_calls = 1
              /\ last.written
                     = _get_most_relevant_patent(call.query, call.provider.df,
                                                 call.llm).record
              /\ DOMAIN cache.map = DOMAIN obs.cache0.map \cup {call.query}
              /\ cache.map[call.query].kind = "entry"
              /\ cache.map[call.query].patent_data = last.written
              /\ \A q \in DOMAIN obs.cache0.map \ {call.query} :
                    cache.map[q] = obs.cache0.map[q]
              /\ file = FileJson(cache)

\* A search of "AB" on a cache that holds "ab": the selector picks the
\* second record, which is stored under "AB" beside the entry of "ab".
C14_Witness ==
    /\ Returned("search")
    /\ call.query = Q1
    /\ obs.cache0 = JsonDict(WellFormedMap)
    /\ last.llm_calls = 1 /\ last.cache_writes = 1
    /\ last.written.rank = 2
    /\ DOMAIN cache.map = {Q0, Q1}
    /\ cache.map[Q0] = WellFormedMap[Q0]

\* C15: optimize_query is called in iteration i only when --optimize is
\* set and i is not the last iteration, and the query it returned in
\* iteration i is the query searched in iteration i + 1; without
\* --optimize every search is of the initial query and optimize_query is
\* never called.  (obs.searched[i] is the query searched in iteration i,
\* obs.optimized[i] the query optimize_query returned in iteration i.)
C15_OptimizedQueryIsSearchedNext ==
    /\ \A e \in obs.ran :
          e[2] = "optimize" => args.optimize /\ e[1] < args.iterations
    /\ \A i \in 1..Len(obs.optimized) :
          /\ <<i, "optimize">> \in obs.ran
          /\ i + 1 <= Len(obs.searched) =>
                obs.searched[i + 1] = obs.optimized[i]
    /\ args.optimize =>
          \A i \in 2..Len(obs.searched) : i - 1 <= Len(obs.optimized)
    /\ ~args.optimize =>
          /\ obs.optimized = <<>>
          /\ \A i \in 1..Len(obs.searched) : obs.searched[i] = args.query

\* Three iterations with --optimize: the second search is of the query
\* the first optimization returned ("AB"), the third of the one the second
\* returned ("ab", from the answer " ab").
C15_Witness ==
    /\ args.optimize /\ args.iterations = 3
    /\ Len(obs.searched) = 3
    /\ obs.optimized = <<Q1, Q0>>
    /\ obs.searched = <<Q0, Q1, Q0>>
    /\ pc = "done"

\* Two iterations without --optimize: both searches are of "ab".
C15_WitnessDisabled ==
    /\ ~args.optimize /\ args.iterations = 2
    /\ obs.searched = <<Q0, Q0>>
    /\ pc = "done"

\* C16: in every state the j-th row of query_history has iteration = j
\* and the history has at most args.iterations rows; every step leaves the
\* rows already there as they were, in place (rows are only appended).
C16_HistoryAppendOnly ==
    /\ [](/\ \A j \in 1..Len(query_history) :
                query_history[j].iteration = j
          /\ Len(query_history) <= args.iterations)
    /\ [][/\ Len(query_history') >= Len(query_history)
          /\ SubSeq(query_history', 1, Len(query_history)) = query_history]_vars

\* A run of three iterations that has appended its third row.
C16_Witness ==
    /\ args.iterations = 3
    /\ Len(query_history) = 3
    /\ query_history[3].iteration = 3
    /\ query_history[1].query = Q0 /\ query_history[2].query = Q1

\* The text as the claim has it in the context: whole when it has at most
\* 200 characters, else its first 200 characters and "...".
CutAt200(t) ==
    IF Len(t) <= 200 THEN t ELSE SubSeq(t, 1, 200) \o <<".", ".", ".">>

\* The evaluation of the live search of an optimize call, from the call's
\* inputs: the fixed message for no results, the evaluator's error text, or
\* the model's answer.
LiveEvaluationText ==
    IF last.result_count = 0 THEN NoResultsMessage
    ELSE IF call.eval_llm.kind = "raise"
    THEN EvaluationErrorLabel \o call.eval_llm.err
    ELSE call.eval_llm.content.s

\* C17: when optimize_query calls the rewrite model, the history part of
\* the message holds the last 3 rows of the history (all rows when there
\* are fewer), in history order, each with its own query and its own
\* evaluation cut at 200 characters, and the live evaluation in the
\* message is the live evaluation cut at 200 characters.
C17_ContextBounded ==
    (Returned("optimize") /\ last.rewrite_calls = 1) =>
        LET h == call.history
            k == IF Len(h) < 3 THEN Len(h) ELSE 3
        IN  /\ Len(last.context) = k
            /\ \A i \in 1..k :
                  /\ last.context[i].query = h[Len(h) - k + i].query
                  /\ last.context[i].evaluation
                         = CutAt200(h[Len(h) - k + i].evaluation.s)
            /\ last.live = CutAt200(LiveEvaluationText)

\* Five rows of history and a live evaluation of 201 characters: rows 3
\* to 5 are sent, the evaluation of 201 characters cut to 203, the one of
\* 200 whole, the one of 250 cut to 203; the live one is cut to 203.
C17_Witness ==
    /\ Returned("optimize") /\ last.rewrite_calls = 1
    /\ call.history = LongHistory
    /\ last.result_count = 50
    /\ call.eval_llm = LlmContent(Str(LongText(201)))
    /\ Len(last.context) = 3
    /\ Len(last.context[1].evaluation) = 203
    /\ last.context[2].evaluation = call.history[4].evaluation.s
    /\ Len(last.context[3].evaluation) = 203
    /\ Len(last.live) = 203
    /\ last.new_query = Q1

\* Some update_cache or clear_cache of the instance has completed.
HasMutated == obs.cleared \/ DOMAIN obs.puts # {}

\* C18: once a put or a clear has completed, and after every later
\* operation, the cache file holds exactly the in-memory mapping, loading it
\* succeeds and gives that mapping, and the loaded cache answers the get of
\* every query as the in-memory cache does (the same record, the same
\* empty record, or the same error).
C18_MutationsFlushed ==
    (pc = "ready" /\ HasMutated) =>
        /\ file = FileJson(cache)
        /\ _load_cache(file) = Ok(cache)
        /\ \A q \in CacheQueries :
              get_cached_patent(_load_cache(file).value, q)
                  = get_cached_patent(cache, q)

\* A cache loaded from a file holding [], cleared, then put twice: the
\* file holds both entries.
C18_Witness ==
    /\ pc = "ready"
    /\ obs.initial_file = FileJson(JsonList)
    /\ obs.cleared
    /\ last = [op |-> "put", kind |-> "ok"]
    /\ DOMAIN cache.map = {Q0, Q1}
    /\ file = FileJson(cache)

\* C19: with two instances on one file, each instance's mapping is what
\* it loaded at construction and what it has put itself, never what the
\* other instance wrote later; the file left by a completed put is the
\* whole mapping of the instance that put, and nothing else.  (The lost
\* update itself is the state C19_LostUpdate.)
C19_PutWritesOwnViewOnly ==
    /\ \A p \in Procs :
          (pc[p] \in {"ready", "writing"} /\ cache[p].kind = "dict") =>
              DOMAIN cache[p].map = obs.loaded[p] \cup obs.put_keys[p]
    /\ obs.writer # 0 =>
          /\ file = FileJson(cache[obs.writer])
          /\ DOMAIN file.value.map
                 = obs.loaded[obs.writer] \cup obs.put_keys[obs.writer]

\* The lost update: both instances were constructed on an empty store;
\* instance 1 put "ab" and the file held it; then instance 2 put "AB"; no
\* two puts overlapped in time, both puts have completed, and the file
\* holds "AB" only.
C19_LostUpdate ==
    /\ obs.loaded = [p \in Procs |-> {}]
    /\ <<1, Q0>> \in obs.flushed
    /\ obs.put_keys = (1 :> {Q0}) @@ (2 :> {Q1})
    /\ ~obs.overlapped
    /\ pc = [p \in Procs |-> "ready"]
    /\ obs.writer = 2
    /\ file.kind = "json" /\ file.value.kind = "dict"
    /\ DOMAIN file.value.map = {Q1}
    /\ Q0 \in DOMAIN cache[1].map

\* The collaborator of a call returned no more records than num asked for.
ProviderObeysCap(num) ==
    call.provider.kind = "results" => call.provider.df.n <= num

\* C20: search_patents asks the collaborator for the number of results
\* it is called with (100 or 2000 here), and the live search of
\* optimize_query always asks for 100; so when the collaborator returns no
\* more records than asked for, optimize_query sees a count of at most
\* 100 and never takes the branch for more than 1000 results.
C20_LiveSearchUsesDefaultCap ==
    /\ Returned("search") => last.num = call.num_results
    /\ Returned("optimize") =>
          /\ last.num = 100
          /\ ProviderObeysCap(last.num) =>
                /\ last.result_count <= 100
                /\ last.regime # "narrow"

\* An optimization whose live search got 50 records for its cap of 100:
\* the rewrite is made in the branch for a moderate count.
C20_Witness ==
    /\ Returned("optimize")
    /\ call.provider = ProviderResults([n |-> 50, pat |-> "dash"])
    /\ last.num = 100
    /\ last.result_count = 50
    /\ last.regime = "hold"
    /\ last.new_query = Q1
====
